---- MODULE Spec2Model ----
(***************************************************************************)
(* Model of vis_on_image.py (jufi2112/smplify-x): the compositor           *)
(* combine_scene_image, the renderer adapter get_scene_render and the      *)
(* batch driver main.                                                      *)
(*                                                                         *)
(* Rasters are functions over the pixel grid Pix.  An RGBA layer maps a    *)
(* pixel to [rgb |-> <<r, g, b>>, a |-> alpha] with uint8 channels, a      *)
(* depth buffer maps a pixel to a depth (0 is the renderer's "no surface"  *)
(* sentinel), the background image maps a pixel to <<r, g, b>>.            *)
(*                                                                         *)
(* float32 values are modelled exactly: [m |-> mantissa, e |-> exponent]   *)
(* stands for m * 2^(-e) with 2^23 <= m < 2^24, or m = 0 for 0.0.          *)
(***************************************************************************)
EXTENDS Integers, Sequences, FiniteSets, TLC

\* ------------------------------------------------------------------ bounds
Height == 2
Width == 1
MaxLayers == 2
MaxImages == 2
MaxPersons == 2

\* ------------------------------------------------------- program constants
\* np.inf (line 142): larger than every depth of the model
Inf == 1000000
\* the divisor / factor 255 of lines 145, 148 and 163
MaxVal == 255
\* astype(np.uint8), line 163: 8-bit channels
Uint8Mod == 256
\* float32 has a 24-bit significand (astype(np.float32), lines 145, 148)
MantBits == 24

Rows == 0 .. (Height - 1)
Cols == 0 .. (Width - 1)
Pix == Rows \X Cols
Chan == 1 .. 3

Pow2(k) == 2 ^ k
MantMin == Pow2(MantBits - 1)
MantMax == Pow2(MantBits)

\* ----------------------------------------------------------------- float32
F32Zero == [m |-> 0, e |-> 0]
F32One == [m |-> MantMin, e |-> MantBits - 1]

\* long division v / 255, one binary digit per step, until the quotient has
\* 24 significant bits: <<quotient, remainder, exponent>>
RECURSIVE DivStep(_, _, _)
DivStep(q, r, e) ==
    IF q >= MantMin THEN <<q, r, e>>
    ELSE DivStep(2 * q + (IF 2 * r >= MaxVal THEN 1 ELSE 0), (2 * r) % MaxVal, e + 1)

\* round-to-nearest-even of mantissa m with remainder rem / den, then renormalise
F32Round(m, rem, den, e) ==
    LET up == (2 * rem > den) \/ (2 * rem = den /\ m % 2 = 1)
        m1 == IF up THEN m + 1 ELSE m
    IN IF m1 = MantMax THEN [m |-> MantMin, e |-> e - 1] ELSE [m |-> m1, e |-> e]

\* x.astype(np.float32) / 255.0 for a uint8 x (line 148), and
\* (x / 255.0).astype(np.float32) (line 145): the float64 quotient rounded to
\* float32 is the correctly rounded float32 quotient (53 >= 2 * 24 + 2)
F32Quotient(v) ==
    IF v = 0 THEN F32Zero
    ELSE LET d == DivStep(v \div MaxVal, v % MaxVal, 0)
         IN F32Round(d[1], d[2], MaxVal, d[3])

\* the quotients of all uint8 values, computed once
F32QuotientTable == [v \in 0 .. MaxVal |-> F32Quotient(v)] @@ <<>>

F32Div255(v) == F32QuotientTable[v]

\* float32 addition of two non-negative values (np.sum over axis 0, line 162).
\* A zero operand leaves the other unchanged, in float32 as in float64.
F32Add(x, y) ==
    IF x.m = 0 THEN y
    ELSE IF y.m = 0 THEN x
    ELSE LET big == IF x.e <= y.e THEN x ELSE y
             small == IF x.e <= y.e THEN y ELSE x
             d == small.e - big.e
         IN IF d > MantBits + 1 THEN big
            ELSE LET q == small.m \div Pow2(d)
                     r == small.m % Pow2(d)
                     s == big.m + q
                 IN IF s >= MantMax
                    THEN F32Round(s \div 2, (s % 2) * Pow2(d) + r, Pow2(d + 1), big.e - 1)
                    ELSE F32Round(s, r, Pow2(d), big.e)

\* x > 1.0
F32GtOne(x) == x.m # 0 /\ (x.e < F32One.e \/ (x.e = F32One.e /\ x.m > F32One.m))

\* faulty variant: no clipping
F32Clip01_None(x) == x

\* np.clip(x, 0, 1) of a non-negative float32 (line 162)
F32Clip01(x) == IF F32GtOne(x) THEN F32One ELSE x

\* (x * 255).astype(np.uint8), line 163: the product is exact in float64
\* (24 + 8 bits), astype truncates toward zero and keeps the low 8 bits
ToUint8(x) ==
    IF x.m = 0 THEN 0
    ELSE LET a == x.m \div Uint8Mod
             b == x.m % Uint8Mod
             t == MaxVal * a + ((MaxVal * b) \div Uint8Mod)
         IN IF x.e >= 8 THEN (t \div Pow2(x.e - 8)) % Uint8Mod
            ELSE (t * Pow2(8 - x.e)) % Uint8Mod

\* ----------------------------------------------------- combine_scene_image
\* Arguments are tagged by how the caller passes them:
\*   scene_rgba   [tag |-> "single", v |-> layer]         an ndarray, ndim 3
\*                [tag |-> "batch",  v |-> <<layer, ...>>] a list of ndarrays
\*   scene_depth  [tag |-> "none",   v |-> <<>>]           None
\*                [tag |-> "list",   v |-> <<buf, ...>>]   a list of ndarrays
\*                [tag |-> "array",  v |-> <<buf, ...>>]   an ndarray, ndim 3
\*                [tag |-> "single", v |-> buf]            an ndarray, ndim 2

SetMin(S) == CHOOSE x \in S : \A y \in S : x <= y

\* lines 134-135: an ndarray of fewer than 4 dimensions gets a batch axis
ExpandDims(scene_rgba) ==
    IF scene_rgba.tag = "single" THEN <<scene_rgba.v>> ELSE scene_rgba.v

\* faulty variant: the sentinel is left in place
PlaceAtInfinity_Keep(d) == d

\* line 142 on one element: scene_depth[scene_depth == 0] = np.inf
PlaceAtInfinity(d) == IF d = 0 THEN Inf ELSE d

\* lines 137-140: the length of axis 0 of the depth array the function works
\* on.  A list is stacked into an (N, H, W) array and an ndarray is used as
\* it is, so axis 0 indexes the buffers of a batch but the rows of a single
\* (H, W) buffer.
DepthAxis0Len(scene_depth) ==
    IF scene_depth.tag = "single" THEN Height ELSE Len(scene_depth.v)

\* the element of scene_depth[idx] that meets pixel p after line 142
\* (idx counts from 1 here).  For a single (H, W) buffer scene_depth[idx] is
\* row idx, of shape (W, 1), which broadcasts over the rows of the mask.
DepthAt(scene_depth, idx, p) ==
    IF scene_depth.tag = "single"
    THEN PlaceAtInfinity(scene_depth.v[<<idx - 1, p[2]>>])
    ELSE PlaceAtInfinity(scene_depth.v[idx][p])

\* line 143: min_depth = scene_depth.min(axis=0), at pixel p
MinDepth(scene_depth, p) ==
    SetMin({DepthAt(scene_depth, i, p) : i \in 1 .. DepthAxis0Len(scene_depth)})

\* line 155: depth_mask = scene_depth[idx] == min_depth, one element
DepthMask(depth, min_depth) == depth = min_depth

\* line 148: scenes_normalized = np.asarray(scene_rgba).astype(np.float32) / 255.0,
\* channel c (4 is alpha) of pixel p of layer idx
SceneNormalized(batch, idx, p, c) ==
    F32Div255(IF c = 4 THEN batch[idx][p].a ELSE batch[idx][p].rgb[c])

\* line 145: original_normalized, channel c of pixel p
OriginalNormalized(original_image, p, c) == F32Div255(original_image[p][c])

\* faulty variant: the alpha channel is ignored
CoverageMask_Ignore(batch, idx, p) == TRUE

\* line 151: valid_mask = scene[:, :, -1] > 0
CoverageMask(batch, idx, p) == SceneNormalized(batch, idx, p, 4).m # 0

\* faulty variant: of the layers that tie for the front only the first in the list wins
ValidMasks_FirstWins(batch, scene_depth, p) ==
    LET min_depth == IF scene_depth.tag = "none" THEN 0 ELSE MinDepth(scene_depth, p)
        all == {i \in 1 .. Len(batch) :
                   /\ CoverageMask(batch, i, p)
                   /\ scene_depth.tag # "none"
                        => DepthMask(DepthAt(scene_depth, i, p), min_depth)}
    IN IF all = {} THEN {} ELSE {SetMin(all)}

\* lines 149-159: valid_masks at pixel p, as the set of the layers whose
\* effective mask is true there
ValidMasks(batch, scene_depth, p) ==
    IF scene_depth.tag = "none"
    THEN {i \in 1 .. Len(batch) : CoverageMask(batch, i, p)}
    ELSE LET min_depth == MinDepth(scene_depth, p)
         IN {i \in 1 .. Len(batch) :
                /\ CoverageMask(batch, i, p)
                /\ DepthMask(DepthAt(scene_depth, i, p), min_depth)}

\* line 158: scene[:, :, :-1] * valid_mask
Body(batch, valid_masks, idx, p, c) ==
    IF idx \in valid_masks THEN SceneNormalized(batch, idx, p, c) ELSE F32Zero

\* line 160: body_mask = np.sum(valid_masks, axis=0) > 0
BodyMask(valid_masks) == Cardinality(valid_masks) > 0

\* np.sum(bodies, axis=0), line 162: float32 accumulation in list order
RECURSIVE SumBodies(_, _, _, _, _)
SumBodies(batch, valid_masks, k, p, c) ==
    IF k = 0 THEN F32Zero
    ELSE F32Add(SumBodies(batch, valid_masks, k - 1, p, c),
                Body(batch, valid_masks, k, p, c))

\* (1 - body_mask) * original_normalized, line 162
Background(mask, orig) == IF mask THEN F32Zero ELSE orig

\* lines 162-163: pixel p of the returned image.  The last sum is a float64
\* one with (at least) one operand 0.0, which is exact.
OutputPixel(batch, original_image, scene_depth, p) ==
    LET valid_masks == ValidMasks(batch, scene_depth, p)
    IN [c \in Chan |->
          ToUint8(F32Add(F32Clip01(SumBodies(batch, valid_masks, Len(batch), p, c)),
                         Background(BodyMask(valid_masks),
                                    OriginalNormalized(original_image, p, c))))]

\* the image combine_scene_image returns (lines 134-164)
combine_scene_image(scene_rgba, original_image, scene_depth) ==
    [p \in Pix |-> OutputPixel(ExpandDims(scene_rgba), original_image, scene_depth, p)]

\* line 160: the union body mask of the call
body_mask_of(scene_rgba, scene_depth) ==
    [p \in Pix |-> BodyMask(ValidMasks(ExpandDims(scene_rgba), scene_depth, p))]

\* the caller's depth object after the call: line 142 writes through an
\* ndarray (lines 137-140 make only views of it), while a list is copied by
\* np.asarray (line 138) and stays as it was
DepthAfterCall(scene_depth) ==
    CASE scene_depth.tag = "array" ->
           [scene_depth EXCEPT
              !.v = [i \in DOMAIN @ |-> [p \in Pix |-> PlaceAtInfinity(@[i][p])]]]
      [] scene_depth.tag = "single" ->
           [scene_depth EXCEPT !.v = [p \in Pix |-> PlaceAtInfinity(@[p])]]
      [] OTHER -> scene_depth

\* --------------------------------------------------------- get_scene_render
\* lines 88-90: camera_translation[0] *= -1.0 is done in place, then the
\* translation is copied into the pose the scene is rendered with.  What the
\* caller's array holds afterwards and the translation column of camera_pose
\* are the same vector.
FlipX(camera_translation) == [camera_translation EXCEPT ![1] = -@]

\* ------------------------------------------------------------------ inputs
\* the layers, depth buffers and images the calls are made with
Colours == {<<255, 0, 0>>, <<0, 255, 0>>}
Covers == {"none", "all", "first"}
DepthPatterns == {"zero", "surface", "ramp"}

Covered(cover, p) == cover = "all" \/ (cover = "first" /\ p = <<0, 0>>)

\* the colour of a layer at p: full in the first row, shaded to 100/255 below
Shade(rgb, p) == IF p[1] = 0 THEN rgb ELSE [c \in Chan |-> (rgb[c] * 100) \div MaxVal]

\* an RGBA render: alpha 255 on the body, 0 elsewhere; the colour channels
\* are not assumed black where alpha is 0
LayerOf(cover, rgb) ==
    [p \in Pix |-> [rgb |-> Shade(rgb, p), a |-> IF Covered(cover, p) THEN MaxVal ELSE 0]]

\* a depth buffer: all sentinel; depth 1 on the body and sentinel elsewhere
\* (what the renderer returns); or a depth falling from row to row whatever
\* the coverage
DepthOf(cover, pat) ==
    [p \in Pix |-> CASE pat = "zero" -> 0
                     [] pat = "surface" -> IF Covered(cover, p) THEN 1 ELSE 0
                     [] OTHER -> Height + 1 - p[1]]

LayerInputs ==
    {[rgba |-> LayerOf(cv, rgb), depth |-> DepthOf(cv, pat)] :
        cv \in Covers, rgb \in Colours, pat \in DepthPatterns}

BackgroundFlat == [p \in Pix |-> <<7, 128, 255>>]
BackgroundVaried == [p \in Pix |-> <<(1 + 85 * p[1] + 50 * p[2]) % Uint8Mod, 3, 254>>]
Backgrounds == {BackgroundFlat, BackgroundVaried}

\* how a batch of n layers can be handed to combine_scene_image
RgbaArgs(ls) ==
    {[tag |-> "batch", v |-> [i \in DOMAIN ls |-> ls[i].rgba]]}
    \cup (IF Len(ls) = 1 THEN {[tag |-> "single", v |-> ls[1].rgba]} ELSE {})

DepthArgs(ls) ==
    {[tag |-> "none", v |-> <<>>],
     [tag |-> "list", v |-> [i \in DOMAIN ls |-> ls[i].depth]],
     [tag |-> "array", v |-> [i \in DOMAIN ls |-> ls[i].depth]]}
    \cup (IF Len(ls) = 1 THEN {[tag |-> "single", v |-> ls[1].depth]} ELSE {})

Translations == {<<2, 1, 5>>, <<-3, 0, 4>>}

NoImage == <<>>
NoPose == <<>>

\* ------------------------------------------------------------------- state
VARIABLES
    api,                 \* which function the caller exercises
    scene_rgba,          \* the caller's layer argument
    scene_depth,         \* the caller's depth argument (the object itself)
    original_image,      \* the background image
    called_with,         \* what scene_depth held when the last call was entered
    body_mask,           \* line 160: the union body mask of the last call
    result,              \* the image the last combine_scene_image returned
    camera_translation,  \* the caller's translation array
    render_pose,         \* the translation the last render used as its pose
    \* main
    args,                \* the command line flags
    n_images,            \* len(images), line 178
    listing,             \* per image started: what os.path.exists / os.listdir gave
    mpc,                 \* where main is
    index,               \* the persons of the current image handled so far
    renders_to_combine,  \* line 199
    depth_maps,          \* line 200
    render_calls,        \* the get_scene_render calls made: <<image, person>>
    composites,          \* the images combine_scene_image returned to main
    output_files         \* the files written to args.output

apivars == <<api, scene_rgba, scene_depth, original_image, called_with, body_mask,
             result, camera_translation, render_pose>>
mainvars == <<args, n_images, listing, mpc, index, renders_to_combine, depth_maps,
              render_calls, composites, output_files>>
vars == <<apivars, mainvars>>

NoDepth == [tag |-> "none", v |-> <<>>]
NoArgs == [save_per_person |-> FALSE, no_depth |-> FALSE, no_save |-> FALSE,
           copy_empty |-> FALSE]

\* main is not running
MainIdle ==
    /\ args = NoArgs
    /\ n_images = 0
    /\ listing = <<>>
    /\ mpc = "idle"
    /\ index = 0
    /\ renders_to_combine = <<>>
    /\ depth_maps = <<>>
    /\ render_calls = {}
    /\ composites = {}
    /\ output_files = {}

InitCombine ==
    /\ MainIdle
    /\ api = "combine"
    /\ \E n \in 1 .. MaxLayers : \E ls \in [1 .. n -> LayerInputs] :
          /\ scene_rgba \in RgbaArgs(ls)
          /\ scene_depth \in DepthArgs(ls)
    /\ original_image \in Backgrounds
    /\ called_with = NoDepth
    /\ body_mask = NoImage
    /\ result = NoImage
    /\ camera_translation = <<0, 0, 0>>
    /\ render_pose = NoPose

InitRender ==
    /\ MainIdle
    /\ api = "render"
    /\ scene_rgba = [tag |-> "batch", v |-> <<>>]
    /\ scene_depth = NoDepth
    /\ original_image = NoImage
    /\ called_with = NoDepth
    /\ body_mask = NoImage
    /\ result = NoImage
    /\ camera_translation \in Translations
    /\ render_pose = NoPose

Init == InitCombine \/ InitRender

\* one call of combine_scene_image with the caller's objects
Combine ==
    /\ api = "combine"
    /\ called_with' = scene_depth
    /\ body_mask' = body_mask_of(scene_rgba, scene_depth)
    /\ result' = combine_scene_image(scene_rgba, original_image, scene_depth)
    /\ scene_depth' = DepthAfterCall(scene_depth)
    /\ UNCHANGED <<api, scene_rgba, original_image, camera_translation, render_pose>>
    /\ UNCHANGED mainvars

\* one call of get_scene_render with the caller's translation array
Render ==
    /\ api = "render"
    /\ camera_translation' = FlipX(camera_translation)
    /\ render_pose' = FlipX(camera_translation)
    /\ UNCHANGED <<api, scene_rgba, scene_depth, original_image, called_with,
                   body_mask, result>>
    /\ UNCHANGED mainvars

Next == Combine \/ Render

Spec == Init /\ [][Next]_vars

\* -------------------------------------------------------------------- main
\* The directory listings are the environment: what os.path.exists and
\* os.listdir return for an image is chosen when the loop reaches it and kept
\* in listing.  File names of meshes and results are taken to match when
\* their numbers do.  show_results and verbosity only display and print.
\* The translation get_scene_render flips belongs to the result dictionary
\* read for that person alone (line 204), which main never reads again.

\* what the renderer returns for the mesh of person i (lines 205-213)
PersonRender(i) ==
    IF i % 2 = 0
    THEN [rgba |-> LayerOf("all", <<255, 0, 0>>), depth |-> DepthOf("all", "surface")]
    ELSE [rgba |-> LayerOf("first", <<0, 255, 0>>), depth |-> DepthOf("first", "surface")]

\* load_image, line 195
ImageFile(k) == IF k % 2 = 1 THEN BackgroundVaried ELSE BackgroundFlat

\* the outputs of an image: <image>_<person_id>.png (line 233),
\* <image>_all.png (line 246) and the copied input (line 190)
PersonName(i) == <<"person", i>>
AllName == <<"all", 0>>
CopyName == <<"copy", 0>>

\* the image being processed, counted from 1
image == Len(listing)

InitMain ==
    /\ api = "main"
    /\ scene_rgba = [tag |-> "batch", v |-> <<>>]
    /\ scene_depth = NoDepth
    /\ original_image = NoImage
    /\ called_with = NoDepth
    /\ body_mask = NoImage
    /\ result = NoImage
    /\ camera_translation = <<0, 0, 0>>
    /\ render_pose = NoPose
    /\ args \in [save_per_person : BOOLEAN, no_depth : BOOLEAN, no_save : BOOLEAN,
                 copy_empty : BOOLEAN]
    /\ n_images \in 1 .. MaxImages
    /\ listing = <<>>
    /\ mpc = "images"
    /\ index = 0
    /\ renders_to_combine = <<>>
    /\ depth_maps = <<>>
    /\ render_calls = {}
    /\ composites = {}
    /\ output_files = {}

\* lines 186-191: no mesh folder for the image
SkipImage ==
    /\ mpc = "images" /\ image < n_images
    /\ listing' = Append(listing, [has_mesh |-> FALSE, meshes |-> 0, results |-> 0])
    /\ output_files' = IF args.copy_empty
                       THEN output_files \cup {<<image + 1, CopyName>>}
                       ELSE output_files
    /\ UNCHANGED <<apivars, args, n_images, mpc, index, renders_to_combine,
                   depth_maps, render_calls, composites>>

\* faulty variant: the numbers are not compared
CountsMatch_Always(persons_meshes, persons_results) == TRUE

\* line 197: the condition of the assert
CountsMatch(persons_meshes, persons_results) == persons_meshes = persons_results

\* lines 193-200: the folders are listed and the numbers compared; the
\* AssertionError leaves main
StartImage ==
    /\ mpc = "images" /\ image < n_images
    /\ \E nm \in 0 .. MaxPersons : \E nr \in 0 .. MaxPersons :
          /\ listing' = Append(listing, [has_mesh |-> TRUE, meshes |-> nm, results |-> nr])
          /\ IF CountsMatch(nm, nr)
             THEN /\ mpc' = "persons"
                  /\ index' = 0
                  /\ renders_to_combine' = <<>>
                  /\ depth_maps' = <<>>
             ELSE /\ mpc' = "failed"
                  /\ UNCHANGED <<index, renders_to_combine, depth_maps>>
    /\ UNCHANGED <<apivars, args, n_images, render_calls, composites, output_files>>

\* lines 215-219: the depth argument of the per-person call
PersonDepthArg(depth) ==
    IF args.no_depth THEN NoDepth ELSE [tag |-> "list", v |-> <<depth>>]

\* lines 201-233: one pass of the person loop
Person ==
    /\ mpc = "persons" /\ index < listing[image].meshes
    /\ LET r == PersonRender(index)
           overlayed == combine_scene_image([tag |-> "batch", v |-> <<r.rgba>>],
                                            ImageFile(image), PersonDepthArg(r.depth))
       IN /\ render_calls' = render_calls \cup {<<image, index>>}
          /\ renders_to_combine' = Append(renders_to_combine, r.rgba)
          /\ depth_maps' = IF args.no_depth THEN depth_maps
                           ELSE Append(depth_maps, r.depth)
          /\ composites' = IF args.save_per_person
                           THEN composites \cup
                                {[image |-> image, who |-> PersonName(index), img |-> overlayed]}
                           ELSE composites
          /\ output_files' = IF args.save_per_person /\ ~args.no_save
                             THEN output_files \cup {<<image, PersonName(index)>>}
                             ELSE output_files
    /\ index' = index + 1
    /\ UNCHANGED <<apivars, args, n_images, listing, mpc>>

\* faulty variant: the combined image is made only when per-person output is off
CombineAllWanted_NoPerPerson(n_renders) == ~args.save_per_person

\* line 235
CombineAllWanted(n_renders) == n_renders > 1 \/ ~args.save_per_person

\* lines 236-238: the depth argument of the combined call
AllDepthArg == IF args.no_depth THEN NoDepth ELSE [tag |-> "list", v |-> depth_maps]

\* lines 235-246, after the person loop.  With no layer at all
\* combine_scene_image raises (min of an empty array, line 143; indexing the
\* scalar sum, line 160).
CombineAll ==
    /\ mpc = "persons" /\ index = listing[image].meshes
    /\ IF ~CombineAllWanted(Len(renders_to_combine))
       THEN /\ mpc' = "images"
            /\ UNCHANGED <<composites, output_files>>
       ELSE IF Len(renders_to_combine) = 0
       THEN /\ mpc' = "crashed"
            /\ UNCHANGED <<composites, output_files>>
       ELSE /\ mpc' = "images"
            /\ composites' = composites \cup
                  {[image |-> image, who |-> AllName,
                    img |-> combine_scene_image(
                               [tag |-> "batch", v |-> renders_to_combine],
                               ImageFile(image), AllDepthArg)]}
            /\ output_files' = IF args.no_save THEN output_files
                               ELSE output_files \cup {<<image, AllName>>}
    /\ UNCHANGED <<apivars, args, n_images, listing, index, renders_to_combine,
                   depth_maps, render_calls>>

\* the image loop ends
Finish ==
    /\ mpc = "images" /\ image = n_images
    /\ mpc' = "done"
    /\ UNCHANGED <<apivars, args, n_images, listing, index, renders_to_combine,
                   depth_maps, render_calls, composites, output_files>>

NextMain == SkipImage \/ StartImage \/ Person \/ CombineAll \/ Finish

SpecMain == InitMain /\ [][NextMain]_vars

\* ------------------------------------------------ properties of the compositor
batch == ExpandDims(scene_rgba)
NLayers == Len(batch)
Layers == 1 .. NLayers
Called == result # NoImage
\* the call got one depth buffer per layer (a list or an (N, H, W) array)
WithDepth == called_with.tag \in {"list", "array"}
NoDepthUsed == called_with.tag = "none"

Alpha(i, p) == batch[i][p].a
Rgb(i, p) == batch[i][p].rgb
RawDepth(i, p) == called_with.v[i][p]
\* the depth with the sentinel 0 read as infinitely far
Corrected(i, p) == IF RawDepth(i, p) = 0 THEN Inf ELSE RawDepth(i, p)
Covering(p) == {i \in Layers : Alpha(i, p) # 0}
\* the claim's effective mask: coverage, and depth equal to the minimum
Effective(p) ==
    {i \in Covering(p) : \A j \in Layers : Corrected(i, p) <= Corrected(j, p)}
\* layers as the renderer returns them: a surface exactly where alpha is set
RendererLike == \A i \in Layers : \A p \in Pix : (Alpha(i, p) # 0) <=> (RawDepth(i, p) # 0)

\* C1: with depth buffers, at every pixel at most one layer's effective mask
\* is true, and the output pixel is the RGB of one layer or the background
\* pixel, never a sum of two layers.
C1_OneSourcePerPixel ==
    (Called /\ WithDepth /\ RendererLike) =>
        \A p \in Pix :
            /\ Cardinality(Effective(p)) <= 1
            /\ result[p] \in {original_image[p]} \cup {Rgb(i, p) : i \in Layers}

\* C2: with depth buffers, a pixel some layer covers shows the RGB of the
\* covering layer of smallest depth, and a pixel no layer covers shows the
\* background.
C2_FrontmostLayerShown ==
    (Called /\ WithDepth /\ RendererLike) =>
        \A p \in Pix :
            IF Covering(p) = {}
            THEN result[p] = original_image[p]
            ELSE \E i \in Covering(p) :
                    /\ \A j \in Covering(p) : Corrected(i, p) <= Corrected(j, p)
                    /\ result[p] = Rgb(i, p)

\* the batch and the depth buffers without layer i
Without(seq, i) == [k \in 1 .. (Len(seq) - 1) |-> IF k < i THEN seq[k] ELSE seq[k + 1]]
WithoutLayer(i) ==
    combine_scene_image([tag |-> "batch", v |-> Without(batch, i)], original_image,
                        [tag |-> "list", v |-> Without(called_with.v, i)])

\* layer i holds the sentinel at p and another layer covers p at a positive depth
SentinelCase(i, p) ==
    /\ RawDepth(i, p) = 0
    /\ \E j \in Covering(p) \ {i} : RawDepth(j, p) > 0

\* C3: with depth buffers, a layer whose depth at a pixel is the sentinel 0
\* never wins that pixel against a layer that covers it at a positive depth:
\* the output there is what the other layers alone give, and it is the colour
\* of the covering layer that is strictly nearest among the positive depths.
C3_SentinelNeverWins ==
    (Called /\ WithDepth) =>
        \A p \in Pix : \A i \in Layers :
            SentinelCase(i, p) =>
                /\ result[p] = WithoutLayer(i)[p]
                /\ \A j \in Covering(p) \ {i} :
                      (/\ RawDepth(j, p) > 0
                       /\ \A k \in Layers \ {j} :
                             RawDepth(k, p) = 0 \/ RawDepth(k, p) > RawDepth(j, p))
                      => result[p] = Rgb(j, p)

\* a sentinel layer with nonzero alpha and another colour lost the pixel
C3_Witness ==
    /\ Called /\ WithDepth
    /\ \E p \in Pix : \E i \in Layers : \E j \in Layers \ {i} :
          /\ RawDepth(i, p) = 0 /\ Alpha(i, p) # 0
          /\ RawDepth(j, p) > 0 /\ Alpha(j, p) # 0
          /\ Rgb(i, p) # Rgb(j, p)
          /\ result[p] = Rgb(j, p)

\* C4: a single layer, and its single depth buffer, passed unwrapped give the
\* image that the same layer and buffer give as lists of length one.
C4_SingleEqualsBatchOfOne ==
    (Called /\ (scene_rgba.tag = "single" \/ called_with.tag = "single")) =>
        result = combine_scene_image(
                    [tag |-> "batch", v |-> batch], original_image,
                    IF called_with.tag = "single"
                    THEN [tag |-> "list", v |-> <<called_with.v>>]
                    ELSE called_with)

\* every layer of the batch has alpha 0 at every pixel
AllTransparent == \A i \in Layers : \A p \in Pix : Alpha(i, p) = 0

\* C5: layers whose alpha is 0 everywhere contribute nothing: the union body
\* mask is set only where some layer has nonzero alpha, and a batch of such
\* layers only, with or without depth buffers, returns the background image.
C5_TransparentLayersGiveBackground ==
    Called =>
        /\ \A p \in Pix : body_mask[p] => Covering(p) # {}
        /\ AllTransparent => result = original_image

\* transparent layers with colour in them and depth buffers were composited
C5_Witness ==
    /\ Called /\ AllTransparent /\ WithDepth
    /\ NLayers > 1
    /\ \E i \in Layers : \E p \in Pix : Rgb(i, p) # <<0, 0, 0>> /\ RawDepth(i, p) > 0
    /\ result = original_image

RECURSIVE ChannelSum(_, _, _)
ChannelSum(S, p, c) ==
    IF S = {} THEN 0
    ELSE LET i == CHOOSE x \in S : TRUE
         IN Rgb(i, p)[c] + ChannelSum(S \ {i}, p, c)

Saturate(x) == IF x > MaxVal THEN MaxVal ELSE x

\* C6: without depth buffers, at a pixel that layers cover each output channel
\* is the sum of the covering layers' channel values saturated at 255; it
\* never leaves 0..255 and the background adds nothing there.
C6_SaturatedSum ==
    (Called /\ NoDepthUsed) =>
        \A p \in Pix : \A c \in Chan :
            /\ result[p][c] \in 0 .. MaxVal
            /\ Covering(p) # {} => result[p][c] = Saturate(ChannelSum(Covering(p), p, c))

\* two layers overlap: at one pixel a channel saturates, at another a channel
\* is the plain sum, over a background that is not black there
C6_Witness ==
    /\ Called /\ NoDepthUsed
    /\ \E p \in Pix : \E c \in Chan :
          /\ Cardinality(Covering(p)) > 1
          /\ ChannelSum(Covering(p), p, c) > MaxVal /\ result[p][c] = MaxVal
    /\ \E p \in Pix : \E c \in Chan :
          /\ Cardinality(Covering(p)) > 1
          /\ ChannelSum(Covering(p), p, c) \in 1 .. (MaxVal - 1)
          /\ result[p][c] = ChannelSum(Covering(p), p, c)
          /\ original_image[p][c] # 0

Perms(n) == {f \in [1 .. n -> 1 .. n] : \A i, j \in 1 .. n : i # j => f[i] # f[j]}
Permute(seq, f) == [k \in 1 .. Len(seq) |-> seq[f[k]]]

\* C9: the same permutation applied to the list of layers and to the list of
\* depth buffers leaves the output image unchanged, with depth buffers (ties
\* included) and without.
C9_OrderIndependent ==
    (Called /\ scene_rgba.tag = "batch" /\ called_with.tag # "single") =>
        \A f \in Perms(NLayers) :
            combine_scene_image(
                [tag |-> "batch", v |-> Permute(batch, f)], original_image,
                IF NoDepthUsed THEN called_with
                ELSE [called_with EXCEPT !.v = Permute(@, f)]) = result

\* two layers of different colours tie in depth at a pixel both cover
C9_Witness ==
    /\ Called /\ WithDepth /\ NLayers > 1
    /\ \E p \in Pix : \E i, j \in Covering(p) :
          /\ i # j /\ Rgb(i, p) # Rgb(j, p)
          /\ RawDepth(i, p) = RawDepth(j, p) /\ RawDepth(i, p) > 0
          /\ result[p] \notin {Rgb(i, p), Rgb(j, p)}

\* C10: a call leaves every caller-supplied array unchanged: the depth
\* buffers keep their values, sentinel zeros included, and the camera
\* translation keeps its sign, so a repeated call returns what the first did.
C10_ArgumentsUnchanged ==
    [][/\ scene_depth' = scene_depth
       /\ camera_translation' = camera_translation
       /\ (render_pose # NoPose => render_pose' = render_pose)
       /\ (Called => result' = result)]_vars

\* ---------------------------------------------------- properties of main
\* the loop body of image k ran to its end
ImageDone(k) == k < image \/ (k = image /\ mpc \in {"images", "done"})
\* image k has a mesh folder with at least one subject, and as many results
HasSubjects(k) ==
    /\ listing[k].has_mesh
    /\ listing[k].meshes >= 1
    /\ listing[k].meshes = listing[k].results
CompositesOf(k, who) == {c \in composites : c.image = k /\ c.who = who}
PerPersonOutputs(k) ==
    \A i \in 0 .. (listing[k].meshes - 1) :
        /\ Cardinality(CompositesOf(k, PersonName(i))) =
              (IF args.save_per_person THEN 1 ELSE 0)
        /\ <<k, PersonName(i)>> \in output_files
              <=> (args.save_per_person /\ ~args.no_save)

\* C7: for every image with a mesh folder of at least one subject, whatever
\* save_per_person and no_depth are, exactly one combined composite is made
\* (saved as <image>_all.png unless no_save), and with save_per_person one
\* composite per subject in addition.
C7_OneCombinedPerImage ==
    \A k \in 1 .. image :
        (ImageDone(k) /\ HasSubjects(k)) =>
            /\ Cardinality(CompositesOf(k, AllName)) = 1
            /\ <<k, AllName>> \in output_files <=> ~args.no_save
            /\ PerPersonOutputs(k)

\* the one case without a combined composite
SinglePersonPerPerson(k) == args.save_per_person /\ listing[k].meshes = 1

\* C7 as amended: exactly one combined composite is made unless
\* save_per_person is set and the image has exactly one subject; then none is
\* made and the subject's own composite is the only output.
C7_OneCombinedUnlessSinglePerPerson ==
    \A k \in 1 .. image :
        (ImageDone(k) /\ HasSubjects(k)) =>
            /\ Cardinality(CompositesOf(k, AllName)) =
                  (IF SinglePersonPerPerson(k) THEN 0 ELSE 1)
            /\ <<k, AllName>> \in output_files
                  <=> (~args.no_save /\ ~SinglePersonPerPerson(k))
            /\ PerPersonOutputs(k)

\* an image of two subjects got its combined and its per-person composites,
\* with depth, and an image of one subject got only the per-person one
C7_Witness ==
    /\ mpc = "done" /\ args.save_per_person /\ ~args.no_depth /\ ~args.no_save
    /\ \E k \in 1 .. image :
          /\ HasSubjects(k) /\ listing[k].meshes = 2
          /\ <<k, AllName>> \in output_files
          /\ <<k, PersonName(1)>> \in output_files
    /\ \E k \in 1 .. image :
          /\ HasSubjects(k) /\ listing[k].meshes = 1
          /\ <<k, PersonName(0)>> \in output_files
          /\ <<k, AllName>> \notin output_files

\* the numbers of mesh files and of parameter records of image k differ
Mismatch(k) == listing[k].has_mesh /\ listing[k].meshes # listing[k].results

\* C8: when the numbers of mesh files and parameter records of an image
\* differ, the error is raised before any subject of the image is rendered or
\* composited: nothing is output for the image, and main stops there.
C8_MismatchIsFatal ==
    \A k \in 1 .. image :
        Mismatch(k) =>
            /\ mpc = "failed" /\ k = image
            /\ ~ENABLED NextMain
            /\ \A c \in render_calls : c[1] # k
            /\ \A c \in composites : c.image # k
            /\ \A f \in output_files : f[1] # k

\* main failed on a second image with subjects, after a first one was composited
C8_Witness ==
    /\ mpc = "failed" /\ image > 1
    /\ listing[image].meshes > 1 /\ listing[image].results >= 1
    /\ args.save_per_person
    /\ \E c \in composites : c.image = 1

====
